---- MODULE Spec2Model ----
(***************************************************************************)
(* Model of the basic-ecom-be backend: the route chains of the product and *)
(* auth routers, the isAdmin authorization middleware, the product         *)
(* controller (createProduct, getProducts, getProduct, updateProduct,      *)
(* deleteProduct) and the two mongoose collections they use.               *)
(*                                                                         *)
(* The auth middleware (middleware/auth) and the auth controller are not   *)
(* among the sources; they are modelled from the design document.          *)
(*                                                                         *)
(* Scope of the model:                                                     *)
(*  - an async function is one step per await: the step that issues a      *)
(*    store call, and the step in which the call settles and the function  *)
(*    runs on to its next await or its response;                           *)
(*  - next() is a step boundary too (Express runs the next element at      *)
(*    once; no step of the model changes a store in between, so the finer  *)
(*    steps add no behaviour of the stores);                               *)
(*  - the register and login routes, whose handlers are not among the      *)
(*    sources, and the brand and search parameters of the listing are left *)
(*    out; query parameters are strings (no nested or repeated parameter). *)
(***************************************************************************)
EXTENDS Integers, Sequences, FiniteSets, TLC

(***************************************************************************)
(* Bounds of the model.                                                    *)
(***************************************************************************)
\* number of user ids a token can name
MaxUsers == 2
\* number of product ids (documents the catalog can hold)
MaxProducts == 3

UserIds == 1..MaxUsers
ProductIds == 1..MaxProducts

(***************************************************************************)
(* Values.                                                                 *)
(***************************************************************************)
\* JavaScript undefined / null, and "no document"
None == [k |-> "none"]

\* models/User.js: role enum
Roles == {"user", "admin"}

\* a user document, as far as the middleware reads it
UserRecord(u, role) == [k |-> "user", id |-> u, role |-> role]

UserRecords == {UserRecord(u, role) : u \in UserIds, role \in Roles}

\* the decoded Subject the Authentication Gate attaches as req.user
Subject(u) == [k |-> "subject", userId |-> u]

\* a req.user without userId (an object that is no Subject)
EmptySubject == [k |-> "subject", userId |-> 0]

\* no User.findById has settled yet for this request
NotLooked == [k |-> "notlooked"]

\* a response that has not been sent
NoResponse == [status |-> 0, success |-> FALSE, message |-> "", by |-> ""]

\* res.status(s).json({success, message}) sent by the component `by`
Response(s, ok, msg, by) == [status |-> s, success |-> ok, message |-> msg, by |-> by]

(***************************************************************************)
(* Catalog documents (models/Product).                                     *)
(***************************************************************************)
\* a product document, as far as the controller and its queries read it
Product(i, name, price, category, active, created) ==
    [k |-> "product", id |-> i, name |-> name, price |-> price,
     category |-> category, isActive |-> active, createdAt |-> created]

\* a request body, as far as the Joi schemas and the store read it
Body(valid, name, price, category, active) ==
    [valid |-> valid, name |-> name, price |-> price, category |-> category,
     isActive |-> active]

NoBody == Body(FALSE, "", 0, "", TRUE)

\* bodies sent to createProduct: one that passes productSchema, one that fails it
CreateBodies == {Body(TRUE, "tee", 1, "Men", TRUE), NoBody}

\* bodies sent to updateProduct: a soft delete {isActive: false}, and one that
\* fails updateProductSchema
UpdateBodies == {Body(TRUE, "", 0, "", FALSE), NoBody}

(***************************************************************************)
(* Routes and their middleware chains.                                     *)
(***************************************************************************)
Routes == {"GET /:id", "POST /", "PUT /:id", "DELETE /:id", "GET /profile"}

AdminRoutes == {"POST /", "PUT /:id", "DELETE /:id"}

\* a wiring that leaves isAdmin out of the delete route
ChainDeleteNoAdmin(route) ==
    CASE route = "GET /" -> <<"getProducts">>
      [] route = "GET /:id" -> <<"getProduct">>
      [] route = "POST /" -> <<"auth", "isAdmin", "createProduct">>
      [] route = "PUT /:id" -> <<"auth", "isAdmin", "updateProduct">>
      [] route = "DELETE /:id" -> <<"auth", "deleteProduct">>
      [] route = "GET /profile" -> <<"auth", "getProfile">>

\* a wiring that leaves auth out of the profile route
ChainProfileNoAuth(route) ==
    CASE route = "GET /" -> <<"getProducts">>
      [] route = "GET /:id" -> <<"getProduct">>
      [] route = "POST /" -> <<"auth", "isAdmin", "createProduct">>
      [] route = "PUT /:id" -> <<"auth", "isAdmin", "updateProduct">>
      [] route = "DELETE /:id" -> <<"auth", "isAdmin", "deleteProduct">>
      [] route = "GET /profile" -> <<"getProfile">>

\* router.<method>(path, ...chain)
Chain(route) ==
    CASE route = "GET /" -> <<"getProducts">>
      [] route = "GET /:id" -> <<"getProduct">>
      [] route = "POST /" -> <<"auth", "isAdmin", "createProduct">>
      [] route = "PUT /:id" -> <<"auth", "isAdmin", "updateProduct">>
      [] route = "DELETE /:id" -> <<"auth", "isAdmin", "deleteProduct">>
      [] route = "GET /profile" -> <<"auth", "getProfile">>

\* Authorization headers: absent, not of the form "Bearer <token>", or a bearer token
HeaderKinds == {"none", "malformed", "bearer"}

\* what Token Service.verify finds wrong with a token, if anything
TokenStates == {"valid", "badsig", "expired"}

Token(u, st) == [userId |-> u, state |-> st]

NoToken == Token(0, "badsig")

(***************************************************************************)
(* State.                                                                  *)
(***************************************************************************)
VARIABLES
    users,      \* the User collection: user id -> document or None
    catalog,    \* the Product collection: product id -> document or None
    req,        \* the request in flight on a gated or single-document route
    lq          \* the request in flight on the listing route GET /

vars == <<users, catalog, req, lq>>

\* a request that has just been accepted by the router
NewRequest(route, hdr, token, id, body) ==
    [route |-> route, hdr |-> hdr, token |-> token, id |-> id, body |-> body,
     pos |-> 1, at |-> "start",
     user |-> None, currentUser |-> None, found |-> None, looked |-> NotLooked,
     resp |-> NoResponse, sent |-> 0,
     passed |-> <<>>, calls |-> <<>>, err |-> ""]

IdleRequest ==
    [NewRequest("GET /:id", "none", NoToken, 1, NoBody) EXCEPT !.pos = 0, !.at = "idle"]

\* the chain element the request is at
Current(rq) ==
    IF rq.pos \in 1..Len(Chain(rq.route)) THEN Chain(rq.route)[rq.pos] ELSE "none"

\* next(): control passes to the following element of the chain
Pass(rq, who) ==
    [rq EXCEPT !.pos = @ + 1, !.at = "start", !.passed = Append(@, who)]

\* res.status(..).json(..): the response is sent and the chain ends here
Reply(rq, resp) ==
    [rq EXCEPT !.resp = resp, !.sent = @ + 1, !.at = "done"]

\* a store call is issued and the function suspends on it
Await(rq, call, at) ==
    [rq EXCEPT !.calls = Append(@, call), !.at = at]

\* raw errors a store call can reject with
StoreErrors == {"MongoNetworkError: connection closed"}

(***************************************************************************)
(* Authentication Gate (middleware/auth).                                  *)
(***************************************************************************)
\* the whole middleware: header check, Token Service.verify, req.user, next()
AuthGate(rq) ==
    IF rq.hdr # "bearer"
    THEN Reply(rq, Response(401, FALSE, "Unauthorized", "auth"))
    ELSE IF rq.token.state # "valid"
         THEN Reply([rq EXCEPT !.calls = Append(@, "Token.verify")],
                    Response(401, FALSE, "Unauthorized", "auth"))
         ELSE Pass([rq EXCEPT !.calls = Append(@, "Token.verify"),
                              !.user = Subject(rq.token.userId)], "auth")

(***************************************************************************)
(* Authorization Gate (isAdmin).                                           *)
(***************************************************************************)
\* !req.user || !req.user.userId
NoSubject(rq) == rq.user = None \/ rq.user.userId = 0

\* isAdmin without its Subject check
IsAdminEnterUnchecked(rq) == Await(rq, "User.findById", "await")

\* isAdmin up to its await: the Subject check, then User.findById is issued
IsAdminEnter(rq) ==
    IF NoSubject(rq)
    THEN Reply(rq, Response(401, FALSE, "Authentication required", "isAdmin"))
    ELSE Await(rq, "User.findById", "await")

\* isAdmin admitting every account that exists
IsAdminResolvedAnyRole(rq, user) ==
    IF user = None
    THEN Reply(rq, Response(404, FALSE, "User not found", "isAdmin"))
    ELSE Pass([rq EXCEPT !.currentUser = user], "isAdmin")

\* isAdmin without its null check: user.role throws and the catch block answers
IsAdminResolvedNoNullCheck(rq, user) ==
    IF user = None
    THEN Reply([rq EXCEPT !.err = "TypeError: Cannot read properties of null"],
               Response(500, FALSE, "Server error during authorization", "isAdmin"))
    ELSE IF user.role # "admin"
         THEN Reply(rq, Response(403, FALSE,
                                 "Access denied: Admin privileges required", "isAdmin"))
         ELSE Pass([rq EXCEPT !.currentUser = user], "isAdmin")

\* isAdmin whose 403 branch lacks its return: it answers and still calls next()
IsAdminResolvedNoReturn(rq, user) ==
    IF user = None
    THEN Reply(rq, Response(404, FALSE, "User not found", "isAdmin"))
    ELSE IF user.role # "admin"
         THEN Pass([Reply(rq, Response(403, FALSE,
                                       "Access denied: Admin privileges required",
                                       "isAdmin"))
                       EXCEPT !.currentUser = user], "isAdmin")
         ELSE Pass([rq EXCEPT !.currentUser = user], "isAdmin")

\* isAdmin after User.findById resolved with `user` (a document or None)
IsAdminResolved(rq, user) ==
    IF user = None
    THEN Reply(rq, Response(404, FALSE, "User not found", "isAdmin"))
    ELSE IF user.role # "admin"
         THEN Reply(rq, Response(403, FALSE,
                                 "Access denied: Admin privileges required", "isAdmin"))
         ELSE Pass([rq EXCEPT !.currentUser = user], "isAdmin")

\* a catch block that answers with the raw error's message
IsAdminCatchLeaking(rq, error) ==
    Reply([rq EXCEPT !.err = error], Response(500, FALSE, error, "isAdmin"))

\* isAdmin's catch block: User.findById rejected with `error`
IsAdminCatch(rq, error) ==
    Reply([rq EXCEPT !.err = error],
          Response(500, FALSE, "Server error during authorization", "isAdmin"))

\* User.findById(id) on the collection as it is now
FindUser(id) == IF id \in DOMAIN users THEN users[id] ELSE None

(***************************************************************************)
(* Product controller: the single-document handlers.                       *)
(***************************************************************************)
\* Product.findById(id) on the collection as it is now
FindProduct(id) == IF id \in DOMAIN catalog THEN catalog[id] ELSE None

\* ids no document holds; a created document takes the least of them
FreeIds == {i \in ProductIds : catalog[i] = None}

LeastFree == CHOOSE i \in FreeIds : \A j \in FreeIds : i <= j

\* createProduct up to its await: productSchema.validate, then Product.create
CreateEnter(rq) ==
    IF ~rq.body.valid
    THEN Reply(rq, Response(400, FALSE, "validation", "createProduct"))
    ELSE Await(rq, "Product.create", "await")

\* the document Product.create(req.body) stores (isActive defaults to true)
Created(i, body) == Product(i, body.name, body.price, body.category, TRUE, i)

\* updateProduct up to its await: updateProductSchema.validate, then findByIdAndUpdate
UpdateEnter(rq) ==
    IF ~rq.body.valid
    THEN Reply(rq, Response(400, FALSE, "validation", "updateProduct"))
    ELSE Await(rq, "Product.findByIdAndUpdate", "await")

\* the document after findByIdAndUpdate(id, {isActive}, {new: true})
Updated(doc, body) == [doc EXCEPT !.isActive = body.isActive]

\* deleteProduct after Product.findById resolved with `product`
DeleteFound(rq, product) ==
    IF product = None
    THEN Reply(rq, Response(404, FALSE, "Product not found", "deleteProduct"))
    ELSE Await([rq EXCEPT !.found = product], "Product.deleteOne", "await2")

\* the catch block of a product handler
HandlerCatch(rq, error, who) ==
    Reply([rq EXCEPT !.err = error], Response(500, FALSE, "Server error", who))

(***************************************************************************)
(* Actions of a request on a gated or single-document route.               *)
(***************************************************************************)
At(who, at) == Current(req) = who /\ req.at = at

\* the tokens a client can present
Tokens == {Token(u, st) : u \in UserIds, st \in TokenStates}

\* the Authorization headers a client can send: <<kind, token>>
Headers == {<<"none", NoToken>>, <<"malformed", NoToken>>} \cup
           {<<"bearer", t>> : t \in Tokens}

\* the requests a client can send on the routes of the two routers
Requests ==
    {NewRequest("GET /:id", "none", NoToken, id, NoBody) : id \in ProductIds} \cup
    {NewRequest("POST /", h[1], h[2], 1, body) : h \in Headers, body \in CreateBodies} \cup
    {NewRequest("PUT /:id", h[1], h[2], ib[1], ib[2]) :
        h \in Headers, ib \in ProductIds \X UpdateBodies} \cup
    {NewRequest("DELETE /:id", h[1], h[2], id, NoBody) : h \in Headers, id \in ProductIds} \cup
    {NewRequest("GET /profile", h[1], h[2], 1, NoBody) : h \in Headers}

\* the router accepts a request (a behaviour follows one request through its
\* chain; the stores start in any state earlier requests can have left)
Receive ==
    /\ req.at = "idle"
    /\ req' \in Requests
    /\ UNCHANGED <<users, catalog, lq>>

Auth ==
    /\ At("auth", "start")
    /\ req' = AuthGate(req)
    /\ UNCHANGED <<users, catalog, lq>>

IsAdminStart ==
    /\ At("isAdmin", "start")
    /\ req' = IsAdminEnter(req)
    /\ UNCHANGED <<users, catalog, lq>>

\* User.findById settles: with the document, with null, or with an error
IsAdminLookup ==
    /\ At("isAdmin", "await")
    /\ \/ LET user == FindUser(req.user.userId)
          IN req' = IsAdminResolved([req EXCEPT !.looked = user], user)
       \/ \E e \in StoreErrors : req' = IsAdminCatch(req, e)
    /\ UNCHANGED <<users, catalog, lq>>

CreateStart ==
    /\ At("createProduct", "start")
    /\ req' = CreateEnter(req)
    /\ UNCHANGED <<users, catalog, lq>>

\* Product.create settles: stored, rejected for a duplicate SKU, or another error
CreateSettle ==
    /\ At("createProduct", "await")
    /\ \/ /\ FreeIds # {}
          /\ catalog' = [catalog EXCEPT ![LeastFree] = Created(LeastFree, req.body)]
          /\ req' = Reply(req, Response(201, TRUE, "", "createProduct"))
       \/ /\ req' = Reply(req, Response(400, FALSE, "SKU already exists", "createProduct"))
          /\ UNCHANGED catalog
       \/ /\ \E e \in StoreErrors : req' = HandlerCatch(req, e, "createProduct")
          /\ UNCHANGED catalog
    /\ UNCHANGED <<users, lq>>

UpdateStart ==
    /\ At("updateProduct", "start")
    /\ req' = UpdateEnter(req)
    /\ UNCHANGED <<users, catalog, lq>>

\* Product.findByIdAndUpdate settles
UpdateSettle ==
    /\ At("updateProduct", "await")
    /\ \/ /\ FindProduct(req.id) = None
          /\ req' = Reply(req, Response(404, FALSE, "Product not found", "updateProduct"))
          /\ UNCHANGED catalog
       \/ /\ FindProduct(req.id) # None
          /\ catalog' = [catalog EXCEPT ![req.id] = Updated(@, req.body)]
          /\ req' = Reply(req, Response(200, TRUE, "", "updateProduct"))
       \/ /\ \E e \in StoreErrors : req' = HandlerCatch(req, e, "updateProduct")
          /\ UNCHANGED catalog
    /\ UNCHANGED <<users, lq>>

\* deleteProduct has no synchronous part: Product.findById is issued at once
DeleteStart ==
    /\ At("deleteProduct", "start")
    /\ req' = Await(req, "Product.findById", "await")
    /\ UNCHANGED <<users, catalog, lq>>

\* Product.findById settles
DeleteLookup ==
    /\ At("deleteProduct", "await")
    /\ \/ req' = DeleteFound(req, FindProduct(req.id))
       \/ \E e \in StoreErrors : req' = HandlerCatch(req, e, "deleteProduct")
    /\ UNCHANGED <<users, catalog, lq>>

\* product.deleteOne() settles: the document with that id is gone (hard delete)
DeleteSettle ==
    /\ At("deleteProduct", "await2")
    /\ \/ /\ catalog' = [catalog EXCEPT ![req.id] = None]
          /\ req' = Reply(req, Response(200, TRUE, "Product removed", "deleteProduct"))
       \/ /\ \E e \in StoreErrors : req' = HandlerCatch(req, e, "deleteProduct")
          /\ UNCHANGED catalog
    /\ UNCHANGED <<users, lq>>

GetProductStart ==
    /\ At("getProduct", "start")
    /\ req' = Await(req, "Product.findById", "await")
    /\ UNCHANGED <<users, catalog, lq>>

\* Product.findById settles; a CastError of kind ObjectId is answered 404
GetProductSettle ==
    /\ At("getProduct", "await")
    /\ \/ /\ FindProduct(req.id) = None
          /\ req' = Reply(req, Response(404, FALSE, "Product not found", "getProduct"))
       \/ /\ FindProduct(req.id) # None
          /\ req' = Reply([req EXCEPT !.found = FindProduct(req.id)],
                          Response(200, TRUE, "", "getProduct"))
       \/ \E e \in StoreErrors : req' = HandlerCatch(req, e, "getProduct")
    /\ UNCHANGED <<users, catalog, lq>>

\* getProfile: reads the Subject's user record and answers
GetProfile ==
    /\ At("getProfile", "start")
    /\ req' = Reply([req EXCEPT !.calls = Append(@, "User.findById")],
                    IF NoSubject(req) \/ FindUser(req.user.userId) = None
                    THEN Response(404, FALSE, "User not found", "getProfile")
                    ELSE Response(200, TRUE, "", "getProfile"))
    /\ UNCHANGED <<users, catalog, lq>>

\* User.deleteOne: an account is removed while tokens naming it are still valid
DeleteUser ==
    /\ \E u \in UserIds :
          /\ users[u] # None
          /\ users' = [users EXCEPT ![u] = None]
    /\ UNCHANGED <<catalog, req, lq>>

(***************************************************************************)
(* JavaScript values of the listing handler: query-string values are       *)
(* strings (sequences of characters) or undefined (None); arithmetic on    *)
(* them goes through ToNumber and can yield NaN or Infinity.               *)
(***************************************************************************)
\* a string; a numeric parameter is spelled character by character, a word
\* that is only compared (a category, a sort token) is a single element
Str(chars) == [k |-> "str", s |-> chars]

Num(n) == [k |-> "num", n |-> n]

NaN == [k |-> "nan"]

Infinity == [k |-> "inf"]

IsNum(v) == v.k = "num"

DigitChars == <<"0", "1", "2", "3", "4", "5", "6", "7", "8", "9">>

IsDigit(c) == \E i \in 1..10 : DigitChars[i] = c

DigitValue(c) == (CHOOSE i \in 1..10 : DigitChars[i] = c) - 1

RECURSIVE DecimalValue(_)
\* the value of a non-empty sequence of digits
DecimalValue(chars) ==
    IF Len(chars) = 0 THEN 0
    ELSE 10 * DecimalValue(SubSeq(chars, 1, Len(chars) - 1)) + DigitValue(chars[Len(chars)])

AllDigits(chars) == Len(chars) > 0 /\ \A i \in 1..Len(chars) : IsDigit(chars[i])

\* Number(v), and the coercion of v in v * 1, v - 1 and n / v
ToNumber(v) ==
    CASE v.k = "num" -> v
      [] v.k = "nan" -> NaN
      [] v.k = "inf" -> Infinity
      [] v.k = "none" -> NaN
      [] v.k = "str" ->
            IF v.s = <<>> THEN Num(0)
            ELSE IF AllDigits(v.s) THEN Num(DecimalValue(v.s))
            ELSE IF v.s[1] = "-" /\ AllDigits(Tail(v.s)) THEN Num(0 - DecimalValue(Tail(v.s)))
            ELSE NaN

\* a * b for the operands that occur (no infinite operand occurs)
JsMul(a, b) ==
    LET x == ToNumber(a)
        y == ToNumber(b)
    IN IF IsNum(x) /\ IsNum(y) THEN Num(x.n * y.n) ELSE NaN

\* a - b
JsSub(a, b) ==
    LET x == ToNumber(a)
        y == ToNumber(b)
    IN IF IsNum(x) /\ IsNum(y) THEN Num(x.n - y.n) ELSE NaN

\* Math.ceil(count / d) for an integer count >= 0 (-0 is written 0)
JsCeilDiv(count, d) ==
    LET y == ToNumber(d)
    IN IF ~IsNum(y) THEN NaN
       ELSE IF y.n = 0 THEN (IF count = 0 THEN NaN ELSE Infinity)
       ELSE IF y.n > 0 THEN Num((count + y.n - 1) \div y.n)
       ELSE Num(0 - (count \div (0 - y.n)))

\* if (v): undefined and the empty string are falsy
Truthy(v) == v # None /\ v # Str(<<>>)

(***************************************************************************)
(* getProducts: the query it builds.                                       *)
(***************************************************************************)
\* req.query of a listing request
Query(page, limit, category, minPrice, maxPrice, sort) ==
    [page |-> page, limit |-> limit, category |-> category,
     minPrice |-> minPrice, maxPrice |-> maxPrice, sort |-> sort]

DefaultPage == 1

DefaultLimit == 10

\* the destructuring defaults: page = 1, limit = 10 when undefined
PageOf(q) == IF q.page = None THEN Num(DefaultPage) ELSE q.page

LimitOf(q) == IF q.limit = None THEN Num(DefaultLimit) ELSE q.limit

\* a filter that also lists inactive documents
BuildFilterNoActive(q) ==
    [activeOnly |-> FALSE,
     category |-> IF Truthy(q.category) THEN q.category ELSE None,
     gte |-> IF Truthy(q.minPrice) THEN ToNumber(q.minPrice) ELSE None,
     lte |-> IF Truthy(q.maxPrice) THEN ToNumber(q.maxPrice) ELSE None]

\* the filter object: { isActive: true, category?, price?: { $gte?, $lte? } };
\* the price entry exists when minPrice or maxPrice is truthy, each bound on its own
\* (activeOnly stands for the entry isActive: true)
BuildFilter(q) ==
    [activeOnly |-> TRUE,
     category |-> IF Truthy(q.category) THEN q.category ELSE None,
     gte |-> IF Truthy(q.minPrice) THEN ToNumber(q.minPrice) ELSE None,
     lte |-> IF Truthy(q.maxPrice) THEN ToNumber(q.maxPrice) ELSE None]

\* a sort resolution whose name_desc line was copied from name_asc unchanged
SortOptionCopied(sort) ==
    CASE sort = Str(<<"price_asc">>) -> [field |-> "price", dir |-> 1]
      [] sort = Str(<<"price_desc">>) -> [field |-> "price", dir |-> -1]
      [] sort = Str(<<"name_asc">>) -> [field |-> "name", dir |-> 1]
      [] sort = Str(<<"name_desc">>) -> [field |-> "name", dir |-> 1]
      [] OTHER -> [field |-> "createdAt", dir |-> -1]

\* the sort object
SortOption(sort) ==
    CASE sort = Str(<<"price_asc">>) -> [field |-> "price", dir |-> 1]
      [] sort = Str(<<"price_desc">>) -> [field |-> "price", dir |-> -1]
      [] sort = Str(<<"name_asc">>) -> [field |-> "name", dir |-> 1]
      [] sort = Str(<<"name_desc">>) -> [field |-> "name", dir |-> -1]
      [] OTHER -> [field |-> "createdAt", dir |-> -1]

\* .limit(limit * 1)
LimitArg(q) == JsMul(LimitOf(q), Num(1))

\* .skip((page - 1) * limit)
SkipArg(q) == JsMul(JsSub(PageOf(q), Num(1)), LimitOf(q))

\* the pagination object of the response
Pagination(q, count) ==
    [total |-> count, page |-> ToNumber(PageOf(q)), pages |-> JsCeilDiv(count, LimitOf(q))]

(***************************************************************************)
(* The Product collection as getProducts queries it (mongoose, MongoDB).   *)
(***************************************************************************)
\* product names in collation order
Names == <<"cap", "tee">>

NameRank(name) == CHOOSE i \in 1..Len(Names) : Names[i] = name

\* the value a document is ordered by
SortKey(doc, field) ==
    CASE field = "price" -> doc.price
      [] field = "name" -> NameRank(doc.name)
      [] OTHER -> doc.createdAt

\* casting the filter against the schema fails: a price bound that is NaN
CastFails(filter) ==
    \/ (filter.gte # None /\ ~IsNum(filter.gte))
    \/ (filter.lte # None /\ ~IsNum(filter.lte))

\* the document satisfies the (castable) filter
Matches(doc, filter) ==
    /\ filter.activeOnly => doc.isActive = TRUE
    /\ filter.category # None => Str(<<doc.category>>) = filter.category
    /\ filter.gte # None => doc.price >= filter.gte.n
    /\ filter.lte # None => doc.price <= filter.lte.n

\* the documents of collection c that satisfy the filter
Matching(c, filter) == {c[i] : i \in {j \in DOMAIN c : c[j] # None /\ Matches(c[j], filter)}}

\* the orders a sort can return the documents in: any order that respects the
\* sort key (the order among documents with equal keys is not specified)
SortedOrders(docs, sortOption) ==
    LET n == Cardinality(docs)
    IN {f \in [1..n -> docs] :
          /\ \A i, j \in 1..n : i # j => f[i] # f[j]
          /\ \A i \in 1..n : \A j \in 1..n : i < j =>
                sortOption.dir * SortKey(f[i], sortOption.field)
                   <= sortOption.dir * SortKey(f[j], sortOption.field)}

StoreFails == -1

\* what .skip(v) makes the query do: skip n documents, or fail; a negative skip
\* is rejected by the server, NaN is rejected or ignored depending on the driver
SkipChoices(v) ==
    IF IsNum(v) THEN (IF v.n >= 0 THEN {v.n} ELSE {StoreFails})
    ELSE {StoreFails, 0}

\* what .limit(v) makes the query do: return at most n documents (0: no limit),
\* or fail; a negative limit is taken as its absolute value or rejected, NaN is
\* rejected or ignored
LimitChoices(v) ==
    IF IsNum(v) THEN (IF v.n >= 0 THEN {v.n} ELSE {0 - v.n, StoreFails})
    ELSE {StoreFails, 0}

\* documents skip+1 .. skip+limit of an ordered result; limit 0 is no limit
Slice(seq, skip, limit) ==
    LET last == IF limit = 0 THEN Len(seq)
                ELSE IF skip + limit < Len(seq) THEN skip + limit ELSE Len(seq)
    IN SubSeq(seq, skip + 1, last)

(***************************************************************************)
(* getProducts: the request and its steps.                                 *)
(***************************************************************************)
NoPagination == [total |-> 0, page |-> NaN, pages |-> NaN]

\* the body sent by res.json / res.status(500).json
ListResponse(status, ok, data, pagination) ==
    [status |-> status, success |-> ok, data |-> data, pagination |-> pagination]

NoListResponse == ListResponse(0, FALSE, <<>>, NoPagination)

\* the collection as a read of this request saw it: nothing read yet
NothingRead == [i \in ProductIds |-> None]

\* a listing request: its query, what getProducts derived from it, the page
\* slice read, the response; and, for the record, the response to the same
\* request made just before (prev) and the collection as the page read (seen)
\* and the count (counted) found it
IdleListing ==
    [at |-> "idle", query |-> Query(None, None, None, None, None, None),
     filter |-> BuildFilter(Query(None, None, None, None, None, None)),
     sort |-> SortOption(None), limitArg |-> NaN, skipArg |-> NaN,
     data |-> <<>>, resp |-> NoListResponse, err |-> "",
     prev |-> NoListResponse, seen |-> NothingRead, counted |-> NothingRead]

\* getProducts up to its first await: the filter, the sort and the find it issues
ListEnter(q) ==
    [at |-> "find", query |-> q, filter |-> BuildFilter(q), sort |-> SortOption(q.sort),
     limitArg |-> LimitArg(q), skipArg |-> SkipArg(q),
     data |-> <<>>, resp |-> NoListResponse, err |-> "",
     prev |-> NoListResponse, seen |-> NothingRead, counted |-> NothingRead]

\* the catch block of getProducts
ListCatch(l, error) ==
    [l EXCEPT !.at = "done", !.err = error,
              !.resp = ListResponse(500, FALSE, <<>>, NoPagination)]

\* a response that reports the length of the page as the total
ListRespondPageLength(l, count) ==
    [l EXCEPT !.at = "done",
              !.resp = ListResponse(200, TRUE, l.data, Pagination(l.query, Len(l.data)))]

\* res.json({success: true, data, pagination}) once countDocuments resolved
ListRespond(l, count) ==
    [l EXCEPT !.at = "done",
              !.resp = ListResponse(200, TRUE, l.data, Pagination(l.query, count))]

CastError == "CastError: Cast to Number failed"

RangeError == "MongoServerError: invalid skip or limit"

\* the router hands a listing request to getProducts
ListReceive(q) ==
    /\ lq.at = "idle"
    /\ lq' = ListEnter(q)
    /\ UNCHANGED <<users, catalog, req>>

\* Product.find(query).sort().limit().skip() settles
ListFind ==
    /\ lq.at = "find"
    /\ \/ /\ CastFails(lq.filter)
          /\ lq' = ListCatch(lq, CastError)
       \/ /\ ~CastFails(lq.filter)
          /\ \E skip \in SkipChoices(lq.skipArg) :
             \E limit \in LimitChoices(lq.limitArg) :
                IF skip = StoreFails \/ limit = StoreFails
                THEN lq' = ListCatch(lq, RangeError)
                ELSE \E order \in SortedOrders(Matching(catalog, lq.filter), lq.sort) :
                        lq' = [lq EXCEPT !.at = "count", !.data = Slice(order, skip, limit),
                                         !.seen = catalog]
       \/ \E e \in StoreErrors : lq' = ListCatch(lq, e)
    /\ UNCHANGED <<users, catalog, req>>

\* Product.countDocuments(query) settles and the response is sent
ListCount ==
    /\ lq.at = "count"
    /\ \/ lq' = ListRespond([lq EXCEPT !.counted = catalog],
                              Cardinality(Matching(catalog, lq.filter)))
       \/ \E e \in StoreErrors : lq' = ListCatch(lq, e)
    /\ UNCHANGED <<users, catalog, req>>

\* the client sends the request it has just been answered once more
ListRepeat ==
    /\ lq.at = "done"
    /\ lq.resp.status = 200
    /\ lq.prev = NoListResponse
    /\ lq' = [ListEnter(lq.query) EXCEPT !.prev = lq.resp]
    /\ UNCHANGED <<users, catalog, req>>

(***************************************************************************)
(* Specifications.                                                         *)
(***************************************************************************)
\* the accounts that exist when the server starts
UserStores == [UserIds -> {None} \cup UserRecords]

ValidUsers(us) == \A u \in UserIds : us[u] # None => us[u].id = u

\* what createProduct, updateProduct and deleteProduct can have left under id i
StoredUnder(i) ==
    {None} \cup {Created(i, b) : b \in {c \in CreateBodies : c.valid}}
           \cup {Updated(Created(i, b), u) :
                    b \in {c \in CreateBodies : c.valid}, u \in {c \in UpdateBodies : c.valid}}

Catalogs == {c \in [ProductIds -> UNION {StoredUnder(i) : i \in ProductIds}] :
                \A i \in ProductIds : c[i] \in StoredUnder(i)}

\* The server with any set of registered accounts and any catalog the admin
\* routes can have produced.
Init ==
    /\ users \in {us \in UserStores : ValidUsers(us)}
    /\ catalog \in Catalogs
    /\ req = IdleRequest
    /\ lq = IdleListing

Next ==
    \/ Receive
    \/ Auth
    \/ IsAdminStart
    \/ IsAdminLookup
    \/ CreateStart
    \/ CreateSettle
    \/ UpdateStart
    \/ UpdateSettle
    \/ DeleteStart
    \/ DeleteLookup
    \/ DeleteSettle
    \/ GetProductStart
    \/ GetProductSettle
    \/ GetProfile
    \/ DeleteUser

Spec == Init /\ [][Next]_vars

\* The Authorization Gate on its own: isAdmin is the next element of an admin
\* route's chain, whatever ran before it left in the request context.
GateContexts == {None, EmptySubject} \cup {Subject(u) : u \in UserIds}

GateRequests ==
    {[NewRequest(route, "none", NoToken, 1, NoBody) EXCEPT !.pos = 2, !.user = su] :
        route \in AdminRoutes, su \in GateContexts}

InitGate ==
    /\ users \in {us \in UserStores : ValidUsers(us)}
    /\ catalog = [i \in ProductIds |-> None]
    /\ req \in GateRequests
    /\ lq = IdleListing

NextGate ==
    \/ IsAdminStart
    \/ IsAdminLookup
    \/ DeleteUser

SpecGate == InitGate /\ [][NextGate]_vars

\* The same, with the event loop running the middleware once it is invoked and
\* the pending User.findById settling (it resolves or rejects).
SpecGateLive ==
    SpecGate /\ WF_vars(IsAdminStart) /\ WF_vars(IsAdminLookup)

(***************************************************************************)
(* Properties of the gates.                                                *)
(***************************************************************************)
ProductCalls == {"Product.create", "Product.findByIdAndUpdate", "Product.findById",
                 "Product.deleteOne"}

Handlers == {"createProduct", "updateProduct", "deleteProduct", "getProduct", "getProfile"}

CallsOf(rq) == {rq.calls[i] : i \in 1..Len(rq.calls)}

\* the product handler of the request has started, called the store or answered
HandlerRan(rq) ==
    \/ rq.pos = 3
    \/ CallsOf(rq) \cap ProductCalls # {}
    \/ rq.resp.by \in Handlers

\* {success: false, message} with a message
Rejection(resp, status, by) ==
    /\ resp.status = status
    /\ resp.success = FALSE
    /\ resp.message # ""
    /\ resp.by = by

LookedRecord(rq) == rq.looked # NotLooked /\ rq.looked # None

\* C1: on an admin-only product route the handler runs only after the
\* Authentication Gate and then the Authorization Gate passed control onward;
\* a delete whose Subject's record has role 'user' is answered 403 by the gate
\* and no product store call is made for it.
C1_HandlerOnlyAfterBothGates ==
    req.route \in AdminRoutes =>
        /\ HandlerRan(req) => req.passed = <<"auth", "isAdmin">>
        /\ (req.route = "DELETE /:id" /\ LookedRecord(req) /\ req.looked.role = "user") =>
              /\ Rejection(req.resp, 403, "isAdmin")
              /\ ~HandlerRan(req)
              /\ CallsOf(req) \cap ProductCalls = {}

C1_Witness ==
    /\ req.route = "DELETE /:id"
    /\ req.passed = <<"auth">>
    /\ LookedRecord(req) /\ req.looked.role = "user"
    /\ req.resp.status = 403

\* C2: when the Subject's record exists, a role other than 'admin' is rejected
\* with 403 and control is not passed on; role 'admin' passes control on with
\* the full record attached as req.currentUser; nothing else is ever admitted.
C2_RoleDecides ==
    /\ (LookedRecord(req) /\ req.looked.role # "admin") =>
          /\ Rejection(req.resp, 403, "isAdmin")
          /\ "isAdmin" \notin {req.passed[i] : i \in 1..Len(req.passed)}
          /\ req.currentUser = None
    /\ (LookedRecord(req) /\ req.looked.role = "admin") =>
          /\ req.passed = <<"isAdmin">>
          /\ req.currentUser = req.looked
          /\ req.sent = 0
    /\ "isAdmin" \in {req.passed[i] : i \in 1..Len(req.passed)} =>
          LookedRecord(req) /\ req.looked.role = "admin"

C2_Witness ==
    /\ LookedRecord(req) /\ req.looked.role = "user"
    /\ req.resp.status = 403

\* C3: invoked on a context with no Subject, the gate answers 401
\* {success: false, message}, issues no User.findById and does not pass control on.
C3_NoSubjectIs401 ==
    (NoSubject(req) /\ req.at # "start") =>
        /\ Rejection(req.resp, 401, "isAdmin")
        /\ req.calls = <<>>
        /\ req.passed = <<>>
        /\ req.sent = 1

C3_Witness == NoSubject(req) /\ req.user # None /\ req.resp.status = 401

\* C4: when the Subject's userId names no record, the gate answers 404
\* 'User not found', attaches nothing and does not pass control on.
C4_MissingUserIs404 ==
    req.looked = None =>
        /\ Rejection(req.resp, 404, "isAdmin")
        /\ req.resp.message = "User not found"
        /\ req.currentUser = None
        /\ req.passed = <<>>

C4_Witness == req.looked = None /\ req.resp.status = 404 /\ ~NoSubject(req)

\* C5: when the lookup fails with an unexpected error, the gate answers a
\* generic 500 {success: false, message} that carries nothing of the raw error,
\* does not pass control on and attaches no record.
C5_LookupErrorIs500 ==
    req.err # "" =>
        /\ Rejection(req.resp, 500, "isAdmin")
        /\ req.resp.message \notin StoreErrors
        /\ req.resp.message # req.err
        /\ req.passed = <<>>
        /\ req.currentUser = None

C5_Witness == req.err \in StoreErrors /\ req.resp.status = 500

AuthenticatedRoutes == AdminRoutes \cup {"GET /profile"}

\* C6: a request to an authenticated route without a bearer header is answered
\* 401 by the Authentication Gate; no store call is made for it, and neither
\* the Authorization Gate nor the handler runs.
C6_NoBearerIs401 ==
    (req.route \in AuthenticatedRoutes /\ req.hdr # "bearer" /\ req.at # "idle"
        /\ ~(req.pos = 1 /\ req.at = "start")) =>
        /\ Rejection(req.resp, 401, "auth")
        /\ req.calls = <<>>
        /\ req.passed = <<>>
        /\ req.pos = 1
        /\ req.looked = NotLooked

C6_Witness ==
    /\ req.route \in AdminRoutes
    /\ req.hdr = "none"
    /\ req.resp.status = 401
    /\ req.resp.by = "auth"

(***************************************************************************)
(* The listing route on its own.                                           *)
(***************************************************************************)
\* spellings of numeric query parameters
S(chars) == Str(chars)

PageValues == {None, S(<<"0">>), S(<<"2">>), S(<<"a">>)}

LimitValues == {None, S(<<"0">>), S(<<"2">>), S(<<"1", "0">>), S(<<"-", "1">>), S(<<"a">>)}

MinPriceValues == {None, S(<<>>), S(<<"2">>), S(<<"a">>)}

MaxPriceValues == {None, S(<<"1">>), S(<<"2">>), S(<<"a">>)}

CategoryValues == {None, S(<<>>), S(<<"Men">>)}

SortValues == {None, S(<<"price_asc">>), S(<<"price_desc">>), S(<<"name_asc">>),
               S(<<"name_desc">>), S(<<"newest">>)}

\* the listing requests: every page and limit, every filter, every sort token
ListQueries ==
    {Query(pl[1], pl[2], c, None, None, None) :
        pl \in PageValues \X LimitValues, c \in {None, S(<<"Men">>)}} \cup
    {Query(None, l, cmm[1], cmm[2], cmm[3], None) :
        l \in {None, S(<<"1">>)},
        cmm \in CategoryValues \X MinPriceValues \X MaxPriceValues} \cup
    {Query(pl[1], pl[2], None, None, None, st) :
        pl \in {None, S(<<"2">>)} \X {None, S(<<"2">>)}, st \in SortValues}

\* the documents the listing is checked on, under id i
ListedUnder(i) ==
    {None,
     Product(i, "tee", 1, "Men", TRUE, i),
     Product(i, "cap", 2, "Men", TRUE, i),
     Product(i, "tee", 2, "Kids", TRUE, i),
     Product(i, "tee", 1, "Men", FALSE, i)}

ListCatalogs == {c \in [ProductIds -> UNION {ListedUnder(i) : i \in ProductIds}] :
                    \A i \in ProductIds : c[i] \in ListedUnder(i)}

InitList ==
    /\ users = [u \in UserIds |-> None]
    /\ catalog \in ListCatalogs
    /\ req = IdleRequest
    /\ lq = IdleListing

NextList ==
    \/ \E q \in ListQueries : ListReceive(q)
    \/ ListFind
    \/ ListCount

SpecList == InitList /\ [][NextList]_vars

(***************************************************************************)
(* Properties of the listing.                                              *)
(***************************************************************************)
\* the value is there and cannot be read as a number
Uncoercible(v) == v # None /\ ~IsNum(ToNumber(v))

\* the limit the design document prescribes: the requested one when it is a
\* positive integer, the default otherwise
PrescribedLimit(q) ==
    IF q.limit # None /\ IsNum(ToNumber(q.limit)) /\ ToNumber(q.limit).n >= 1
    THEN ToNumber(q.limit).n
    ELSE DefaultLimit

\* the page the design document prescribes
PrescribedPage(q) ==
    IF q.page # None /\ IsNum(ToNumber(q.page)) /\ ToNumber(q.page).n >= 1
    THEN ToNumber(q.page).n
    ELSE DefaultPage

\* ceil(total / limit) for a positive limit
Ceil(total, limit) == (total + limit - 1) \div limit

Succeeded(l) == l.at = "done" /\ l.resp.status = 200

\* C7: in a successful response pagination.pages is a finite non-negative
\* integer equal to ceil(total / limit), and data holds at most limit records,
\* also for limit = 0, a negative limit and a limit given as a string.
C7_PagesAndSliceBounded ==
    Succeeded(lq) =>
        /\ IsNum(lq.resp.pagination.pages)
        /\ lq.resp.pagination.pages.n >= 0
        /\ lq.resp.pagination.pages.n =
              Ceil(lq.resp.pagination.total, PrescribedLimit(lq.query))
        /\ Len(lq.resp.data) <= PrescribedLimit(lq.query)

\* C8: the page and limit handed to the store are normalised: the limit is an
\* integer >= 1 (10 when absent, zero or negative), the page an integer >= 1
\* (1 when absent), so the skip is a non-negative integer.
C8_PageAndLimitNormalised ==
    lq.at # "idle" =>
        /\ IsNum(lq.limitArg)
        /\ lq.limitArg.n >= 1
        /\ lq.limitArg.n = PrescribedLimit(lq.query)
        /\ IsNum(lq.skipArg)
        /\ lq.skipArg.n >= 0
        /\ lq.skipArg.n = (PrescribedPage(lq.query) - 1) * PrescribedLimit(lq.query)

\* the request with every uncoercible numeric parameter left out
WithoutMalformed(q) ==
    [q EXCEPT !.page = IF Uncoercible(@) THEN None ELSE @,
              !.limit = IF Uncoercible(@) THEN None ELSE @,
              !.minPrice = IF Uncoercible(@) THEN None ELSE @,
              !.maxPrice = IF Uncoercible(@) THEN None ELSE @]

HasMalformed(q) == WithoutMalformed(q) # q

\* C9: a numeric parameter that cannot be coerced is treated as absent: unless
\* the store itself fails, the request is answered 200 with the page, pages
\* and total of the same request without that parameter.
C9_MalformedTreatedAsAbsent ==
    (lq.at = "done" /\ HasMalformed(lq.query) /\ lq.err \notin StoreErrors) =>
        /\ lq.resp.status = 200
        /\ lq.resp.pagination.page = ToNumber(PageOf(WithoutMalformed(lq.query)))
        /\ lq.resp.pagination.pages =
              JsCeilDiv(lq.resp.pagination.total, LimitOf(WithoutMalformed(lq.query)))
        /\ lq.resp.pagination.total =
              Cardinality(Matching(catalog, BuildFilter(WithoutMalformed(lq.query))))

\* a parameter counts as provided when it has a non-empty value
Provided(v) == v # None /\ v.s # <<>>

\* the record is active and satisfies every provided filter
Eligible(doc, q) ==
    /\ doc.isActive = TRUE
    /\ Provided(q.category) => q.category.s = <<doc.category>>
    /\ Provided(q.minPrice) =>
          (IsNum(ToNumber(q.minPrice)) /\ doc.price >= ToNumber(q.minPrice).n)
    /\ Provided(q.maxPrice) =>
          (IsNum(ToNumber(q.maxPrice)) /\ doc.price <= ToNumber(q.maxPrice).n)

Stored == {catalog[i] : i \in {j \in ProductIds : catalog[j] # None}}

\* C10: every record of a successful response is active and satisfies all the
\* provided filters (category, inclusive minPrice, inclusive maxPrice), and
\* pagination.total is the number of stored records that do.
C10_OnlyEligibleListedAndCounted ==
    Succeeded(lq) =>
        /\ \A i \in 1..Len(lq.resp.data) :
              lq.resp.data[i] \in Stored /\ Eligible(lq.resp.data[i], lq.query)
        /\ lq.resp.pagination.total =
              Cardinality({d \in Stored : Eligible(d, lq.query)})

C10_Witness ==
    /\ Succeeded(lq)
    /\ Provided(lq.query.category)
    /\ lq.query.minPrice = S(<<"2">>)
    /\ lq.query.maxPrice = S(<<"2">>)
    /\ Len(lq.resp.data) = 1
    /\ lq.resp.data[1].price = 2
    /\ \E d \in Stored : ~d.isActive
    /\ \E d \in Stored : d.isActive /\ ~Eligible(d, lq.query)
    /\ lq.resp.pagination.total = 1

\* the (field, direction) the design document assigns to a sort token
PrescribedSort(sort) ==
    IF sort = None THEN <<"createdAt", -1>>
    ELSE IF sort.s = <<"price_asc">> THEN <<"price", 1>>
    ELSE IF sort.s = <<"price_desc">> THEN <<"price", -1>>
    ELSE IF sort.s = <<"name_asc">> THEN <<"name", 1>>
    ELSE IF sort.s = <<"name_desc">> THEN <<"name", -1>>
    ELSE <<"createdAt", -1>>

\* the value of the named field, for comparison
FieldValue(doc, field) ==
    IF field = "price" THEN doc.price
    ELSE IF field = "name" THEN NameRank(doc.name)
    ELSE doc.createdAt

\* page and limit are absent or positive, and no price bound is given
PlainPaging(q) ==
    /\ q.page \in {None, S(<<"2">>)}
    /\ q.limit \in {None, S(<<"2">>)}
    /\ q.minPrice = None
    /\ q.maxPrice = None

\* C11: every value of sort resolves: the four tokens to their field and
\* direction, anything else (an absent sort too) to (createdAt, descending);
\* the records come back in that order, and no sort value makes the request
\* end in an error response.
C11_SortResolutionTotal ==
    /\ lq.at # "idle" =>
          <<lq.sort.field, lq.sort.dir>> = PrescribedSort(lq.query.sort)
    /\ (lq.at = "done" /\ PlainPaging(lq.query) /\ lq.err \notin StoreErrors) =>
          lq.resp.status = 200
    /\ Succeeded(lq) =>
          \A i \in 1..Len(lq.resp.data) : \A j \in 1..Len(lq.resp.data) :
             i < j =>
                LET ps == PrescribedSort(lq.query.sort)
                IN ps[2] * FieldValue(lq.resp.data[i], ps[1])
                      <= ps[2] * FieldValue(lq.resp.data[j], ps[1])

C11_Witness ==
    /\ Succeeded(lq)
    /\ lq.query.sort = S(<<"newest">>)
    /\ lq.sort = [field |-> "createdAt", dir |-> -1]
    /\ Len(lq.resp.data) = 2
    /\ lq.resp.data[1].createdAt > lq.resp.data[2].createdAt

(***************************************************************************)
(* The listing route asked the same question twice, the catalog unchanged. *)
(***************************************************************************)
\* the requests repeated: every sort token, with and without a page and a limit
RepeatQueries ==
    {Query(pl[1], pl[2], None, None, None, st) :
        pl \in {None, S(<<"2">>)} \X {None, S(<<"2">>)}, st \in SortValues}

NextRepeat ==
    \/ \E q \in RepeatQueries : ListReceive(q)
    \/ ListFind
    \/ ListCount
    \/ ListRepeat

SpecRepeat == InitList /\ [][NextRepeat]_vars

\* C12: two successful listing requests with the same query parameters and no
\* catalog write between or during them return the same data, in the same
\* order, and the same pagination.
C12_RepeatedListingIsEqual ==
    (lq.at = "done" /\ lq.prev.status = 200 /\ lq.resp.status = 200) =>
        /\ lq.resp.data = lq.prev.data
        /\ lq.resp.pagination = lq.prev.pagination

(***************************************************************************)
(* The outcome of the Authorization Gate.                                  *)
(***************************************************************************)
\* the gate is through with the request: it answered, or control is past it
GateTerminal(rq) == rq.at = "done" \/ rq.pos > 2

\* the gate rejected: one response of the documented shape, control not passed on
GateRejected(rq) ==
    /\ rq.at = "done"
    /\ rq.sent = 1
    /\ rq.resp.status \in {401, 403, 404, 500}
    /\ Rejection(rq.resp, rq.resp.status, "isAdmin")
    /\ rq.passed = <<>>
    /\ rq.pos = 2

\* the gate admitted: control passed on once, no response sent
GateAdmitted(rq) ==
    /\ rq.passed = <<"isAdmin">>
    /\ rq.pos = 3
    /\ rq.sent = 0
    /\ rq.resp = NoResponse

\* at no point more than one response, more than one next(), both, or a retry
GateNoDouble(rq) ==
    /\ rq.sent <= 1
    /\ Len(rq.passed) <= 1
    /\ ~(rq.sent = 1 /\ rq.passed # <<>>)
    /\ Cardinality({i \in 1..Len(rq.calls) : rq.calls[i] = "User.findById"}) <= 1

GateOutcome ==
    /\ GateNoDouble(req)
    /\ GateTerminal(req) => (GateRejected(req) \/ GateAdmitted(req))

\* C13: every request entering the Authorization Gate reaches exactly one
\* terminal outcome, without retry: one rejection response (401, 403, 404 or
\* 500, {success: false, message}) and no next(), or one next() and no
\* response; never both, and never neither.
C13_ExactlyOneOutcome == ([]GateOutcome) /\ (<>GateTerminal(req))

C13_Witness == GateAdmitted(req) /\ req.currentUser # None

(***************************************************************************)
(* The listing route while an admin request writes the catalog.            *)
(***************************************************************************)
\* the one account of this scenario: an admin
RaceUsers == [u \in UserIds |-> IF u = 1 THEN UserRecord(1, "admin") ELSE None]

\* an admin-route request as the two gates hand it to its handler
Admitted(rq) ==
    LET admin == UserRecord(1, "admin")
        gated == IsAdminEnter(AuthGate(rq))
    IN IsAdminResolved([gated EXCEPT !.looked = admin], admin)

\* the write requests of the admin: a create, a soft delete and a hard delete
AdmittedRequests ==
    {Admitted(NewRequest("POST /", "bearer", Token(1, "valid"), 1, body)) :
        body \in {b \in CreateBodies : b.valid}} \cup
    {Admitted(NewRequest("PUT /:id", "bearer", Token(1, "valid"), ib[1], ib[2])) :
        ib \in ProductIds \X {b \in UpdateBodies : b.valid}} \cup
    {Admitted(NewRequest("DELETE /:id", "bearer", Token(1, "valid"), id, NoBody)) :
        id \in ProductIds}

\* the listing requests made meanwhile: the default page, and pages of one record
RaceQueries ==
    {Query(None, None, None, None, None, None),
     Query(None, S(<<"1">>), None, None, None, None),
     Query(S(<<"2">>), S(<<"1">>), None, None, None, None)}

InitRace ==
    /\ users = RaceUsers
    /\ catalog \in Catalogs
    /\ req \in AdmittedRequests
    /\ lq = IdleListing

NextRace ==
    \/ \E q \in RaceQueries : ListReceive(q)
    \/ ListFind
    \/ ListCount
    \/ CreateStart
    \/ CreateSettle
    \/ UpdateStart
    \/ UpdateSettle
    \/ DeleteStart
    \/ DeleteLookup
    \/ DeleteSettle

SpecRace == InitRace /\ [][NextRace]_vars

\* the documents a read found in the collection
DocsOf(c) == {c[i] : i \in {j \in ProductIds : c[j] # None}}

\* the two reads of a successful listing agree with one state of the catalog
ConsistentListing(l) ==
    (Succeeded(l) /\ l.seen = l.counted) =>
        /\ l.resp.pagination.total =
              Cardinality({d \in DocsOf(l.seen) : Eligible(d, l.query)})
        /\ Len(l.resp.data) <= l.resp.pagination.total

\* C14: a step of getProducts never changes the catalog; when the page read
\* and the count read found the same catalog (no write came between them) the
\* total is the number of matching records of that catalog and data holds at
\* most total records. (With a write between the reads the total can disagree
\* with data: C14_Witness.)
C14_TwoReadsNoSnapshot ==
    [][(lq' # lq => catalog' = catalog) /\ ConsistentListing(lq')]_vars

C14_Witness ==
    /\ Succeeded(lq)
    /\ lq.seen # lq.counted
    /\ Len(lq.resp.data) > lq.resp.pagination.total

====
